---- MODULE Spec2Model ----
(***************************************************************************)
(* tokio-ctrlc-error: the CtrlcAsError combinator (src/src/lib.rs).        *)
(*                                                                         *)
(* A task is a future handed to an executor (rt.block_on).  It is either   *)
(* `op.ctrlc_as_error()` alone, or the chain of the crate documentation,   *)
(* `op.ctrlc_as_error().and_then(|_| cont)`.  The wrapped future, the      *)
(* continuation and the ctrl+c stream are leaf futures of other crates:    *)
(* the model keeps, for each, the outcome its next poll() returns, and the *)
(* environment actions change that outcome.                                *)
(***************************************************************************)
EXTENDS Integers, FiniteSets, Sequences, TLC

\* ------------------------------------------------------------- bounds
NumValues == 2       \* distinct success items of a future
NumErrors == 2       \* distinct native errors of a future
NumIoFaults == 1     \* distinct std::io::Error values of the signal stream
MaxInterrupts == 2   \* ctrl+c requests in one behaviour
MaxSpurious == 1     \* wake-ups of a task that no leaf future asked for

Values == 1..NumValues
NativeErrors == 1..NumErrors
IoFaults == 1..NumIoFaults

Tasks == {"A", "B"}

\* ------------------------------------------------------------- Poll<Item, Error>
\* futures 0.1: Ok(Async::NotReady), Ok(Async::Ready(item)), Err(error).
NotReady == [k |-> "NotReady", tag |-> "none", v |-> 0]
Ready(tag, v) == [k |-> "Ready", tag |-> tag, v |-> v]
Err(tag, v) == [k |-> "Err", tag |-> tag, v |-> v]

\* What a wrapped future (or a continuation) can report: its item or its
\* own error type F::Error, here tagged "native".
Completions == {Ready("item", v) : v \in Values} \cup {Err("native", e) : e \in NativeErrors}
FutureOutcomes == {NotReady} \cup Completions

\* What the ctrl+c stream, a Stream<Item = (), Error = io::Error>, can report:
\* NotReady, Ready(Some(())), Ready(None) at the end of the stream, Err(io).
SigSome == Ready("some", 0)
SigNone == Ready("end", 0)
SigErr(io) == Err("io", io)
Released == [k |-> "Released", tag |-> "none", v |-> 0]

\* Variant: the test for NotReady taken for the test for Ready.
is_not_ready(a) == a.k = "NotReady"

\* Async::is_ready
is_ready(a) == a.k = "Ready"

\* ------------------------------------------------------------- error types
\* pub struct KeyboardInterrupt;  (no data)
KeyboardInterrupt == [tag |-> "KeyboardInterrupt", v |-> 0]
\* pub struct IoError(std::io::Error);
IoError(io) == [tag |-> "IoError", v |-> io]
\* F::Error: From<KeyboardInterrupt> + From<IoError>: the unified error keeps
\* which kind it was built from (failure::Error::downcast recovers it).
Into(e) == Err(e.tag, e.v)

\* ------------------------------------------------------------- CtrlcAsError::poll
\* Variant: the branches of `if ctrlc_fut.is_ready()` exchanged.
PollInverted(c, f) ==
    IF c.k = "Err"
      THEN [ret |-> Into(IoError(c.v)), polledCtrlc |-> TRUE, polledFuture |-> FALSE]
      ELSE IF ~is_ready(c)
        THEN [ret |-> Into(KeyboardInterrupt), polledCtrlc |-> TRUE, polledFuture |-> FALSE]
        ELSE [ret |-> IF f.k = "Err" THEN Into([tag |-> f.tag, v |-> f.v]) ELSE f,
              polledCtrlc |-> TRUE, polledFuture |-> TRUE]

\* Variant: the future polled first with try_ready!, which returns NotReady
\* before the ctrl+c stream has been looked at.
PollTryReadyFuture(c, f) ==
    IF f = NotReady
      THEN [ret |-> NotReady, polledCtrlc |-> FALSE, polledFuture |-> TRUE]
      ELSE IF c.k = "Err"
        THEN [ret |-> Into(IoError(c.v)), polledCtrlc |-> TRUE, polledFuture |-> TRUE]
        ELSE IF is_ready(c)
          THEN [ret |-> Into(KeyboardInterrupt), polledCtrlc |-> TRUE, polledFuture |-> TRUE]
          ELSE [ret |-> IF f.k = "Err" THEN Into([tag |-> f.tag, v |-> f.v]) ELSE f,
                polledCtrlc |-> TRUE, polledFuture |-> TRUE]

\* Variant: the error of the stream dropped (unwrap_or(NotReady)) instead of
\* returned with `?`.
PollSwallowsFault(c, f) ==
    IF c.k # "Err" /\ is_ready(c)
      THEN [ret |-> Into(KeyboardInterrupt), polledCtrlc |-> TRUE, polledFuture |-> FALSE]
      ELSE [ret |-> IF f.k = "Err" THEN Into([tag |-> f.tag, v |-> f.v]) ELSE f,
            polledCtrlc |-> TRUE, polledFuture |-> TRUE]

\* Variant: map_err(|_| KeyboardInterrupt.into()) on the future's error.
PollMasksFailure(c, f) ==
    IF c.k = "Err"
      THEN [ret |-> Into(IoError(c.v)), polledCtrlc |-> TRUE, polledFuture |-> FALSE]
      ELSE IF is_ready(c)
        THEN [ret |-> Into(KeyboardInterrupt), polledCtrlc |-> TRUE, polledFuture |-> FALSE]
        ELSE [ret |-> IF f.k = "Err" THEN Into(KeyboardInterrupt) ELSE f,
              polledCtrlc |-> TRUE, polledFuture |-> TRUE]

\* c is what self.ctrlc.poll() returns in this step, f what self.future.poll()
\* returns if it is called.  The result says what the step returns and which
\* of the two fields it polled.
CtrlcAsErrorPoll(c, f) ==
    IF c.k = "Err"
      THEN \* self.ctrlc.poll().map_err(IoError)?
           [ret |-> Into(IoError(c.v)), polledCtrlc |-> TRUE, polledFuture |-> FALSE]
      ELSE IF is_ready(c)
        THEN \* Err(KeyboardInterrupt.into())
             [ret |-> Into(KeyboardInterrupt), polledCtrlc |-> TRUE, polledFuture |-> FALSE]
        ELSE \* self.future.poll().map_err(Into::into)
             [ret |-> IF f.k = "Err" THEN Into([tag |-> f.tag, v |-> f.v]) ELSE f,
              polledCtrlc |-> TRUE, polledFuture |-> TRUE]

\* A stream hands out its item once: what the next poll of the stream returns
\* after a poll that returned c.
AfterPoll(c) == IF c = SigSome THEN NotReady ELSE c

\* ------------------------------------------------------------- the chain
\* Variant: the wrapper put around the whole chain.
PollsSignalAlways(stg) == TRUE

\* sleep().ctrlc_as_error().and_then(|_| sleep()): only the first stage is
\* inside the wrapper, so only there is the ctrl+c stream polled.
PollsSignal(stg) == stg = "race"

\* One poll of the stage the task is in: the wrapper around the operation, or
\* the bare continuation.
Step(stg, c, f) ==
    IF PollsSignal(stg)
      THEN CtrlcAsErrorPoll(c, f)
      ELSE [ret |-> f, polledCtrlc |-> FALSE, polledFuture |-> TRUE]

\* The leaf futures that returned NotReady in a step registered the task for
\* a wake-up.
Registered(step, c, f, src) ==
    (IF step.polledCtrlc /\ c = NotReady THEN {"sig"} ELSE {})
      \cup (IF step.polledFuture /\ f = NotReady THEN {src} ELSE {})

\* Variant: a driver that keeps a resolved wrapper and polls it again.
StageAfterKeep(stg, advance, out) == IF advance THEN "cont" ELSE stg

\* rt.block_on(task) polls the task until it returns Ready or Err and then
\* gives the result back; and_then moves to the continuation when the first
\* stage is Ready.
StageAfter(stg, advance, out) ==
    IF out = NotReady
      THEN (IF advance THEN "cont" ELSE stg)
      ELSE "done"

Live(stg) == stg \in {"race", "cont"}

\* ------------------------------------------------------------- state
VARIABLES
    stage,      \* task -> "absent" | "race" | "cont" | "done" | "dropped"
    chained,    \* task -> whether a continuation follows the wrapper
    never,      \* task -> whether the wrapped operation never completes
    op,         \* task -> what the wrapped future's next poll returns
    cont,       \* task -> what the continuation's next poll returns
    sub,        \* task -> what the ctrl+c stream's next poll returns
    woken,      \* task -> whether the executor has the task scheduled
    reg,        \* task -> leaves that will wake the task: "sig", "op", "cont"
    raceRes,    \* task -> what CtrlcAsError::poll resolved with (NotReady: not yet)
    res,        \* task -> what block_on returned (NotReady: not yet)
    lastRace,   \* task -> the last step of CtrlcAsError::poll: c, f, ret, what it polled
    sigPolls,   \* task -> number of polls of the ctrl+c stream
    opPolls,    \* task -> number of polls of the wrapped future
    nResults,   \* task -> number of results CtrlcAsError::poll has produced
    opBefore,   \* task -> the operation had completed when the interrupt was delivered
    lateInt,    \* task -> an interrupt was requested after the wrapper resolved Ready
    droppedAt,  \* task -> number of ctrl+c requests when it was dropped (-1: not dropped)
    requested,  \* number of ctrl+c requests so far
    spurious    \* number of spurious wake-ups so far

vars == <<stage, chained, never, op, cont, sub, woken, reg, raceRes, res, lastRace,
          sigPolls, opPolls, nResults, opBefore, lateInt, droppedAt, requested, spurious>>

NoStep == [c |-> NotReady, f |-> NotReady, ret |-> NotReady,
           polledCtrlc |-> FALSE, polledFuture |-> FALSE]

\* Variant: one ctrl+c stream kept in a shared place and used by every wrapper.
SubShared(t) == "A"

\* ctrlc_as_error() calls tokio_signal::ctrl_c() for each wrapper it builds:
\* the wrapper of task t owns the stream sub[SubOf(t)].
SubOf(t) == t

\* The subscription of a task receives notifications while the wrapper that
\* owns it is the stage being polled.
Listening(t) == Live(stage[t]) /\ PollsSignal(stage[t])

Init ==
    /\ stage = [t \in Tasks |-> IF t = "A" THEN "race" ELSE "absent"]
    /\ chained \in [Tasks -> BOOLEAN]
    /\ never \in [Tasks -> BOOLEAN]
    /\ chained["B"] = FALSE /\ never["B"] = FALSE
    /\ op = [t \in Tasks |-> NotReady]
    /\ cont \in [Tasks -> FutureOutcomes]
    /\ cont["B"] = NotReady
    /\ (~chained["A"] => cont["A"] = NotReady)
    /\ sub = [t \in Tasks |-> IF t = "A" THEN NotReady ELSE Released]
    /\ woken = [t \in Tasks |-> t = "A"]
    /\ reg = [t \in Tasks |-> {}]
    /\ raceRes = [t \in Tasks |-> NotReady]
    /\ res = [t \in Tasks |-> NotReady]
    /\ lastRace = [t \in Tasks |-> NoStep]
    /\ sigPolls = [t \in Tasks |-> 0]
    /\ opPolls = [t \in Tasks |-> 0]
    /\ nResults = [t \in Tasks |-> 0]
    /\ opBefore = [t \in Tasks |-> FALSE]
    /\ lateInt = [t \in Tasks |-> FALSE]
    /\ droppedAt = [t \in Tasks |-> -1]
    /\ requested = 0
    /\ spurious = 0

\* ------------------------------------------------------------- environment
\* The wrapped future reaches its result r (a timer fires, I/O completes).
OpComplete(t, r) ==
    /\ stage[t] = "race"
    /\ op[t] = NotReady
    /\ ~never[t]
    /\ op' = [op EXCEPT ![t] = r]
    /\ woken' = [woken EXCEPT ![t] = @ \/ "op" \in reg[t]]
    /\ UNCHANGED <<stage, chained, never, cont, sub, reg, raceRes, res, lastRace,
                   sigPolls, opPolls, nResults, opBefore, lateInt, requested, spurious, droppedAt>>

\* The continuation of a chain reaches its result r.
ContComplete(t, r) ==
    /\ stage[t] = "cont"
    /\ cont[t] = NotReady
    /\ cont' = [cont EXCEPT ![t] = r]
    /\ woken' = [woken EXCEPT ![t] = @ \/ "cont" \in reg[t]]
    /\ UNCHANGED <<stage, chained, never, op, sub, reg, raceRes, res, lastRace,
                   sigPolls, opPolls, nResults, opBefore, lateInt, requested, spurious, droppedAt>>

\* The user presses ctrl+c: every subscription that is listening and has no
\* event waiting gets the notification, and its task is woken if the stream
\* had registered it.
Interrupt ==
    /\ requested < MaxInterrupts
    /\ requested' = requested + 1
    /\ LET gets(t) == Listening(t) /\ sub[SubOf(t)] = NotReady
       IN /\ sub' = [s \in Tasks |-> IF \E t \in Tasks : SubOf(t) = s /\ gets(t)
                                      THEN SigSome ELSE sub[s]]
          /\ woken' = [t \in Tasks |-> woken[t] \/ (gets(t) /\ "sig" \in reg[t])]
          /\ opBefore' = [t \in Tasks |-> IF gets(t) THEN op[t] # NotReady ELSE opBefore[t]]
    /\ lateInt' = [t \in Tasks |-> lateInt[t] \/ raceRes[t].k = "Ready"]
    /\ UNCHANGED <<stage, chained, never, op, cont, reg, raceRes, res, lastRace,
                   sigPolls, opPolls, nResults, spurious, droppedAt>>

\* The subscription fails: the next poll of the stream returns Err(io).
SubFault(t, io) ==
    /\ Listening(t)
    /\ sub[SubOf(t)] = NotReady
    /\ sub' = [sub EXCEPT ![SubOf(t)] = SigErr(io)]
    /\ woken' = [woken EXCEPT ![t] = @ \/ "sig" \in reg[t]]
    /\ UNCHANGED <<stage, chained, never, op, cont, reg, raceRes, res, lastRace,
                   sigPolls, opPolls, nResults, opBefore, lateInt, requested, spurious, droppedAt>>

\* The stream ends: the next poll of the stream returns Ready(None).
StreamEnd(t) ==
    /\ Listening(t)
    /\ sub[SubOf(t)] = NotReady
    /\ sub' = [sub EXCEPT ![SubOf(t)] = SigNone]
    /\ woken' = [woken EXCEPT ![t] = @ \/ "sig" \in reg[t]]
    /\ UNCHANGED <<stage, chained, never, op, cont, reg, raceRes, res, lastRace,
                   sigPolls, opPolls, nResults, opBefore, lateInt, requested, spurious, droppedAt>>

\* The executor polls a task nothing has woken (it is allowed to).
SpuriousWake(t) ==
    /\ Live(stage[t])
    /\ ~woken[t]
    /\ spurious < MaxSpurious
    /\ spurious' = spurious + 1
    /\ woken' = [woken EXCEPT ![t] = TRUE]
    /\ UNCHANGED <<stage, chained, never, op, cont, sub, reg, raceRes, res, lastRace,
                   sigPolls, opPolls, nResults, opBefore, lateInt, requested, droppedAt>>

\* ------------------------------------------------------------- the executor
\* One poll of task t by block_on: the stage it is in, and, when the wrapper
\* resolves Ready in a chain, the first poll of the continuation as well.
PollTask(t) ==
    /\ Live(stage[t])
    /\ woken[t]
    /\ LET stg == stage[t]
           c == sub[SubOf(t)]
           f == IF stg = "race" THEN op[t] ELSE cont[t]
           s1 == Step(stg, c, f)
           advance == stg = "race" /\ s1.ret.k = "Ready" /\ chained[t]
           c2 == IF s1.polledCtrlc THEN AfterPoll(c) ELSE c
           s2 == Step("cont", c2, cont[t])
           last == IF advance THEN s2 ELSE s1
           out == last.ret
           cEnd == IF advance /\ s2.polledCtrlc THEN AfterPoll(c2) ELSE c2
           stg2 == StageAfter(stg, advance, out)
           nSig == (IF s1.polledCtrlc THEN 1 ELSE 0)
                     + (IF advance /\ s2.polledCtrlc THEN 1 ELSE 0)
       IN /\ stage' = [stage EXCEPT ![t] = stg2]
          /\ res' = [res EXCEPT ![t] = out]
          /\ raceRes' = [raceRes EXCEPT ![t] = IF stg = "race" THEN s1.ret ELSE @]
          /\ lastRace' = [lastRace EXCEPT ![t] =
                            IF stg = "race"
                              THEN [c |-> c, f |-> f, ret |-> s1.ret,
                                    polledCtrlc |-> s1.polledCtrlc,
                                    polledFuture |-> s1.polledFuture]
                              ELSE @]
          /\ nResults' = [nResults EXCEPT ![t] =
                            IF stg = "race" /\ s1.ret # NotReady THEN @ + 1 ELSE @]
          /\ sigPolls' = [sigPolls EXCEPT ![t] = @ + nSig]
          /\ opPolls' = [opPolls EXCEPT ![t] =
                            IF stg = "race" /\ s1.polledFuture THEN @ + 1 ELSE @]
          /\ sub' = [sub EXCEPT ![SubOf(t)] =
                       IF Live(stg2) /\ PollsSignal(stg2) THEN cEnd ELSE Released]
          /\ woken' = [woken EXCEPT ![t] = out # NotReady]
          /\ reg' = [reg EXCEPT ![t] =
                       IF out # NotReady THEN {}
                       ELSE IF advance \/ stg = "cont"
                         THEN Registered(last, IF advance THEN c2 ELSE c, cont[t], "cont")
                         ELSE Registered(s1, c, f, "op")]
    /\ UNCHANGED <<chained, never, op, cont, opBefore, lateInt, requested, spurious, droppedAt>>

\* Variant: the task was handed to the executor detached, and dropping the
\* caller's handle leaves it running.
AfterDropDetached(stg) == stg

\* CtrlcAsError owns `future` and `ctrlc` by value: dropping it ends the task.
AfterDrop(stg) == "dropped"

\* The caller drops a task that has not resolved: the wrapper, the future it
\* owns and its subscription go with it.
DropTask(t) ==
    /\ Live(stage[t])
    /\ stage' = [stage EXCEPT ![t] = AfterDrop(stage[t])]
    /\ sub' = [sub EXCEPT ![SubOf(t)] = Released]
    /\ reg' = [reg EXCEPT ![t] = {}]
    /\ woken' = [woken EXCEPT ![t] = FALSE]
    /\ droppedAt' = [droppedAt EXCEPT ![t] = requested]
    /\ UNCHANGED <<chained, never, op, cont, raceRes, res, lastRace,
                   sigPolls, opPolls, nResults, opBefore, lateInt, requested, spurious>>

Next ==
    \/ \E t \in Tasks, r \in Completions : OpComplete(t, r)
    \/ \E t \in Tasks, r \in Completions : ContComplete(t, r)
    \/ Interrupt
    \/ \E t \in Tasks, io \in IoFaults : SubFault(t, io)
    \/ \E t \in Tasks : StreamEnd(t)
    \/ \E t \in Tasks : SpuriousWake(t)
    \/ \E t \in Tasks : PollTask(t)
    \/ \E t \in Tasks : DropTask(t)

Spec == Init /\ [][Next]_vars

\* A task that is scheduled and not dropped is polled in the end, and nobody
\* drops it: the executor of block_on runs the task to completion.
NextRun ==
    \/ \E t \in Tasks, r \in Completions : OpComplete(t, r)
    \/ \E t \in Tasks, r \in Completions : ContComplete(t, r)
    \/ Interrupt
    \/ \E t \in Tasks, io \in IoFaults : SubFault(t, io)
    \/ \E t \in Tasks : StreamEnd(t)
    \/ \E t \in Tasks : SpuriousWake(t)
    \/ \E t \in Tasks : PollTask(t)

FairSpec == Init /\ [][NextRun]_vars /\ \A t \in Tasks : WF_vars(PollTask(t))

\* Two wrappers built in one process, each around its own operation that
\* never completes (the two tests of the crate build theirs side by side),
\* each driven to completion by its executor.
InitFan ==
    /\ stage = [t \in Tasks |-> "race"]
    /\ chained = [t \in Tasks |-> FALSE]
    /\ never = [t \in Tasks |-> TRUE]
    /\ op = [t \in Tasks |-> NotReady]
    /\ cont = [t \in Tasks |-> NotReady]
    /\ sub = [t \in Tasks |-> NotReady]
    /\ woken = [t \in Tasks |-> TRUE]
    /\ reg = [t \in Tasks |-> {}]
    /\ raceRes = [t \in Tasks |-> NotReady]
    /\ res = [t \in Tasks |-> NotReady]
    /\ lastRace = [t \in Tasks |-> NoStep]
    /\ sigPolls = [t \in Tasks |-> 0]
    /\ opPolls = [t \in Tasks |-> 0]
    /\ nResults = [t \in Tasks |-> 0]
    /\ opBefore = [t \in Tasks |-> FALSE]
    /\ lateInt = [t \in Tasks |-> FALSE]
    /\ droppedAt = [t \in Tasks |-> -1]
    /\ requested = 0
    /\ spurious = 0

NextFan ==
    \/ Interrupt
    \/ \E t \in Tasks, io \in IoFaults : SubFault(t, io)
    \/ \E t \in Tasks : StreamEnd(t)
    \/ \E t \in Tasks : SpuriousWake(t)
    \/ \E t \in Tasks : PollTask(t)

FanSpec == InitFan /\ [][NextFan]_vars /\ \A t \in Tasks : WF_vars(PollTask(t))

\* ------------------------------------------------------------- properties
\* CtrlcAsError::poll of task t has run at least once.
Stepped(t) == sigPolls[t] > 0

KI == Into(KeyboardInterrupt)

\* C1 (failure dominance): in a step of the wrapper in which the wrapped
\* operation has failed and the interrupt notification is ready, the step
\* returns the operation's own failure, not KeyboardInterrupt.
C1_FailureDominance ==
    \A t \in Tasks :
        (Stepped(t) /\ lastRace[t].f.k = "Err" /\ lastRace[t].c = SigSome)
            => lastRace[t].ret = lastRace[t].f

\* C2 (success dominance): in a step of the wrapper in which the wrapped
\* operation has completed with an item and the interrupt notification is
\* ready, the step returns the item, not KeyboardInterrupt.
C2_SuccessDominance ==
    \A t \in Tasks :
        (Stepped(t) /\ lastRace[t].f.k = "Ready" /\ lastRace[t].c = SigSome)
            => lastRace[t].ret = lastRace[t].f

C4_InterruptCapture ==
    /\ \A t \in Tasks :
         (stage[t] = "race" /\ never[t] /\ sub[t] = SigSome) ~> (raceRes[t] = KI)
    /\ [](\A t \in Tasks :
            (Stepped(t) /\ lastRace[t].ret = KI) => ~lastRace[t].polledFuture)
    /\ [][\A t \in Tasks : raceRes[t] = KI => opPolls'[t] = opPolls[t]]_vars

C4_Witness ==
    \E t \in Tasks :
        /\ never[t] /\ requested = 1
        /\ lastRace[t].c = SigSome /\ raceRes[t] = KI
        /\ opPolls[t] >= 1 /\ stage[t] = "done"

\* C5 (bounded response): a step of the wrapper in which the operation is
\* pending and the notification is ready resolves with KeyboardInterrupt; it
\* does not return NotReady.
C5_BoundedResponse ==
    \A t \in Tasks :
        (Stepped(t) /\ lastRace[t].c = SigSome /\ lastRace[t].f = NotReady)
            => /\ lastRace[t].ret = KI
               /\ raceRes[t] = KI
               /\ res[t] = KI
               /\ stage[t] = "done"

C5_Witness ==
    \E t \in Tasks :
        /\ Stepped(t) /\ lastRace[t].c = SigSome /\ lastRace[t].f = NotReady
        /\ res[t] = KI /\ sigPolls[t] = 2

\* C6 (ordering across steps): if the operation had its result before the
\* interrupt was delivered, the wrapper resolves with the operation's result,
\* however late it is polled, and never with KeyboardInterrupt.
C6_ResultNotReordered ==
    \A t \in Tasks :
        (opBefore[t] /\ raceRes[t] # NotReady) => raceRes[t] = op[t]

\* C7 (fault not swallowed): a step in which the poll of the ctrl+c stream
\* returns an error while the operation is pending resolves with IoError
\* carrying that error: not NotReady, not KeyboardInterrupt.
C7_FaultSurfaced ==
    \A t \in Tasks :
        (Stepped(t) /\ lastRace[t].c.k = "Err" /\ lastRace[t].f = NotReady)
            => /\ lastRace[t].ret = Err("IoError", lastRace[t].c.v)
               /\ raceRes[t] = Err("IoError", lastRace[t].c.v)
               /\ res[t] = Err("IoError", lastRace[t].c.v)
               /\ stage[t] = "done"

C7_Witness ==
    \E t \in Tasks :
        /\ Stepped(t) /\ lastRace[t].c = SigErr(NumIoFaults) /\ lastRace[t].f = NotReady
        /\ res[t] = Err("IoError", NumIoFaults)
        /\ sigPolls[t] = 2

\* C8 (native failure passthrough): a step in which the operation has failed
\* and the ctrl+c stream has nothing resolves with that same failure, and the
\* task returns it: not KeyboardInterrupt, not IoError, not an item.
C8_NativePassthrough ==
    \A t \in Tasks :
        (Stepped(t) /\ lastRace[t].f.k = "Err" /\ lastRace[t].c = NotReady)
            => /\ lastRace[t].ret = Err("native", lastRace[t].f.v)
               /\ raceRes[t] = Err("native", lastRace[t].f.v)
               /\ res[t] = Err("native", lastRace[t].f.v)
               /\ stage[t] = "done"

C8_Witness ==
    \E t \in Tasks :
        /\ Stepped(t) /\ lastRace[t].c = NotReady
        /\ lastRace[t].f = Err("native", NumErrors)
        /\ res[t] = Err("native", NumErrors)

C10_Scoping ==
    /\ [](\A t \in Tasks : raceRes[t].k = "Ready" => res[t] # KI)
    /\ [][\A t \in Tasks : raceRes[t].k = "Ready" => raceRes'[t] = raceRes[t]]_vars

C10_Witness ==
    \E t \in Tasks :
        /\ chained[t] /\ lateInt[t]
        /\ raceRes[t].k = "Ready"
        /\ stage[t] = "done" /\ res[t].k = "Ready"

\* C11 (fan-out): with two wrappers unresolved and no event waiting at either
\* subscription, one interrupt request puts a notification at both
\* subscriptions; a poll of one wrapper leaves the subscription of the other
\* as it is; and once both have the notification both resolve with
\* KeyboardInterrupt, in whichever order they are polled.
C11_FanOut ==
    /\ [][(requested' = requested + 1
            /\ \A t \in Tasks : stage[t] = "race" /\ sub[t] = NotReady)
          => \A t \in Tasks : sub'[t] = SigSome /\ woken'[t]]_vars
    /\ [][\A t, u \in Tasks :
            (t # u /\ sigPolls'[t] # sigPolls[t]) => sub'[u] = sub[u]]_vars
    /\ (\A t \in Tasks : stage[t] = "race" /\ sub[t] = SigSome)
          ~> (\A t \in Tasks : raceRes[t] = KI /\ res[t] = KI)

C11_Witness ==
    /\ requested = 1
    /\ \A t \in Tasks :
         /\ opPolls[t] = 1 /\ sigPolls[t] = 2
         /\ lastRace[t].c = SigSome
         /\ raceRes[t] = KI

\* C12 (both polled once per step): every step of an unresolved wrapper
\* polls the ctrl+c stream and the wrapped operation, each once, whatever the
\* other reports.
C12_BothPolledEachStep ==
    \A t \in Tasks :
        Stepped(t) => (lastRace[t].polledCtrlc /\ lastRace[t].polledFuture)

\* C13 (result over fault): in a step in which the operation has its result
\* (item or own failure) and the poll of the ctrl+c stream fails, the wrapper
\* resolves with the operation's result, not with IoError.
C13_ResultOverFault ==
    \A t \in Tasks :
        (Stepped(t) /\ lastRace[t].f # NotReady /\ lastRace[t].c.k = "Err")
            => lastRace[t].ret = lastRace[t].f

\* C14 (pending step): a step of the wrapper in which the operation is pending
\* and the ctrl+c stream has nothing returns NotReady, produces no result and
\* leaves the wrapper unresolved with the operation and the subscription as
\* they were.
C14_PendingStep ==
    [][\A t \in Tasks :
        (stage[t] = "race" /\ sigPolls'[t] # sigPolls[t]
           /\ sub[t] = NotReady /\ op[t] = NotReady)
        => /\ lastRace'[t].ret = NotReady
           /\ raceRes'[t] = NotReady /\ res'[t] = NotReady
           /\ nResults'[t] = nResults[t]
           /\ stage'[t] = "race"
           /\ op'[t] = op[t] /\ sub'[t] = sub[t]
           /\ cont'[t] = cont[t]]_vars

C14_Witness ==
    \E t \in Tasks :
        /\ stage[t] = "race" /\ sigPolls[t] = 2 /\ opPolls[t] = 2
        /\ lastRace[t].c = NotReady /\ lastRace[t].f = NotReady
        /\ lastRace[t].ret = NotReady
        /\ raceRes[t] = NotReady /\ nResults[t] = 0
        /\ op[t] = NotReady /\ sub[t] = NotReady

\* C15 (cancellation): after an unresolved wrapper is dropped, the operation
\* and the ctrl+c stream are not polled again, the operation does not complete
\* through the wrapper, the subscription is released and no result is
\* produced, whatever interrupts follow.
C15_Cancellation ==
    /\ [](\A t \in Tasks :
            droppedAt[t] >= 0
              => /\ stage[t] = "dropped"
                 /\ sub[t] = Released
                 /\ (nResults[t] = 0 => (raceRes[t] = NotReady /\ res[t] = NotReady)))
    /\ [][\A t \in Tasks :
            droppedAt[t] >= 0
              => /\ sigPolls'[t] = sigPolls[t] /\ opPolls'[t] = opPolls[t]
                 /\ op'[t] = op[t] /\ nResults'[t] = nResults[t]
                 /\ raceRes'[t] = raceRes[t] /\ res'[t] = res[t]]_vars

C15_Witness ==
    \E t \in Tasks :
        /\ stage[t] = "dropped" /\ nResults[t] = 0
        /\ opPolls[t] >= 1
        /\ droppedAt[t] >= 0 /\ requested > droppedAt[t]
        /\ res[t] = NotReady /\ sub[t] = Released

\* C16 (no spurious interrupt): the wrapper resolves with KeyboardInterrupt
\* only in a step in which the ctrl+c stream handed out a notification of a
\* requested interrupt; a stream that is ready because it ended does not count.
C16_NoSpuriousInterrupt ==
    \A t \in Tasks :
        raceRes[t] = KI => (requested >= 1 /\ lastRace[t].c = SigSome)

\* C17 (no lost wake-up): a step of the wrapper that returns NotReady has
\* polled both the ctrl+c stream and the operation, so both have registered
\* the task; an unresolved wrapper that is not scheduled has both
\* registrations and neither source is ready.
C17_NoLostWakeup ==
    \A t \in Tasks :
        /\ (Stepped(t) /\ lastRace[t].ret = NotReady)
              => (lastRace[t].polledCtrlc /\ lastRace[t].polledFuture)
        /\ (stage[t] = "race" /\ ~woken[t])
              => (reg[t] = {"sig", "op"} /\ sub[t] = NotReady /\ op[t] = NotReady)

C17_Witness ==
    \E t \in Tasks :
        /\ stage[t] = "race" /\ Stepped(t) /\ lastRace[t].ret = NotReady
        /\ reg[t] = {"sig", "op"}
        /\ sub[t] = SigSome /\ woken[t]
====
